---- MODULE Spec2Model ----
(***************************************************************************)
(* State-machine model of LiveQueue, the disk backed time-shift ring       *)
(* buffer of vdr-plugin-robotv (src/live/livequeue.cpp).                   *)
(*                                                                         *)
(* The ring-buffer file is modelled byte by byte: every cell remembers the *)
(* packet it belongs to, so that a packet is decodable only while all of   *)
(* its bytes are still in place.  The two file descriptors are modelled by *)
(* their file offsets.  The variables marked "history" record what         *)
(* happened and are never read by the modelled code.                       *)
(*                                                                         *)
(* A handler is one step (lock, body, unlock) in Spec, SpecPause,          *)
(* SpecShutdown and SpecBurst; in SpecLocks taking a lock is a step of its *)
(* own, so that calls overlap.                                             *)
(***************************************************************************)
EXTENDS Integers, Sequences, FiniteSets, TLC

(* ---- bounds of the model ---- *)
\* LiveQueue::m_bufferSize (configurable, 1 GiB by default), in bytes
BufferSize == 3
\* longest encoded packet, in bytes (packets are 1..MaxLen bytes long)
MaxLen == 3
\* number of queue() calls explored by Spec
MaxPackets == 3
\* last value of the wall clock (the clock starts at 1)
MaxTime == 3
\* number of queue() calls explored by SpecBurst
MaxBurst == 402
\* entries the producer may have waiting in the submission list under Spec
MaxPending == 1
\* number of MsgPacket::write failures explored
MaxIoFail == 1
\* value at which the count of read-cursor wraps stops counting
MaxReadLap == 2

(* ---- program constants ---- *)
\* capacity of the submission list
QueueLimit == 400

VIDEO == "scVIDEO"
AUDIO == "scAUDIO"
IFRAME == "ftIFRAME"
PFRAME == "ftPFRAME"

\* lseek() on a closed descriptor
BadOffset == 0 - 1

VARIABLES
    file,               \* content of the storage file, one cell per byte
    m_readFd,           \* file offset of the read descriptor
    m_writeFd,          \* file offset of the write descriptor
    fdOpen,             \* FALSE once close() has closed both descriptors
    m_wrapped,
    m_hasWrapped,
    m_wrapCount,
    m_indexList,        \* sequence of keyframe index entries
    m_pause,
    m_queueStartTime,   \* 0 = not set
    m_writerQueue,      \* submission list, front first
    m_writerRunning,
    writerPc,           \* position of the writer thread
    writerP,            \* the PacketData the writer thread holds (or NoPacket)
    phase,              \* "live", "closing" (destructor running), "terminated"
    now,                \* wall clock
    nextId,             \* history: id of the next packet offered to queue()
    destroyed,          \* history: destroyed[id] = number of deletes of packet id
    persisted,          \* history: ids of the packets written to the file, in order
    delivered,          \* history: ids returned by read()
    cumBytes,           \* history: bytes persisted so far
    lapEnd,             \* history: write offset at which the last wrap happened
    seekUsed,           \* history: seek() or read(true) has moved the read cursor
    ioFails,            \* history: number of MsgPacket::write failures so far
    m_mutex,            \* the thread that holds the ring-buffer lock, or "free"
    m_mutexQueue,       \* the thread that holds the submission-list lock, or "free"
    producerPc,         \* "called": the producer is inside queue()
    consumerPc,         \* "called": the consumer is inside read() or seek()
    readLap,            \* history: lap of the read cursor: the number of times it has
                        \* wrapped, or the generation of the entry it was last moved
                        \* to; it stops counting at MaxReadLap
    last                \* history: the last call, its argument and return value; for
                        \* write also the start time before it and whether trim popped

vars == << file, m_readFd, m_writeFd, fdOpen, m_wrapped, m_hasWrapped, m_wrapCount,
           m_indexList, m_pause, m_queueStartTime, m_writerQueue, m_writerRunning,
           writerPc, writerP, phase, now, nextId, destroyed, persisted, delivered,
           cumBytes, lapEnd, seekUsed, ioFails, readLap, last,
           m_mutex, m_mutexQueue, producerPc, consumerPc >>

ringVars == << file, m_readFd, m_writeFd, m_wrapped, m_hasWrapped, m_wrapCount,
               m_indexList, m_queueStartTime, now, persisted, cumBytes, lapEnd, ioFails,
               readLap >>

lockVars == << m_mutex, m_mutexQueue, producerPc, consumerPc >>

dataVars == << file, m_readFd, m_writeFd, fdOpen, m_wrapped, m_hasWrapped, m_wrapCount,
               m_indexList, m_pause, m_queueStartTime, m_writerQueue, m_writerRunning,
               writerPc, writerP, phase, now, nextId, destroyed, persisted, delivered,
               cumBytes, lapEnd, seekUsed, ioFails, readLap, last >>

Offsets == 0 .. (BufferSize + MaxLen - 2)

EmptyCell == [id |-> 0, len |-> 0, idx |-> 0]

NoPacket == [id |-> 0, len |-> 0, frame |-> PFRAME, content |-> AUDIO, pts |-> 0]

Min(a, b) == IF a < b THEN a ELSE b

(* ======================================================================= *)
(* File descriptors and the packet codec                                   *)
(* ======================================================================= *)

\* lseek(fd, 0, SEEK_CUR): the offset of an open descriptor, -1 on a closed one
Lseek(pos) == IF fdOpen THEN pos ELSE BadOffset

\* a whole packet starts at pos and none of its bytes has been overwritten
Intact(pos) ==
    /\ pos \in Offsets
    /\ file[pos].id # 0
    /\ file[pos].idx = 0
    /\ \A k \in 0 .. (file[pos].len - 1) :
          /\ pos + k \in Offsets
          /\ file[pos + k] = [id |-> file[pos].id, len |-> file[pos].len, idx |-> k]

\* MsgPacket::read(fd, timeout): a whole packet or nothing, never a part of one
MsgPacketRead(pos) ==
    IF fdOpen /\ Intact(pos)
    THEN [id |-> file[pos].id, len |-> file[pos].len]
    ELSE [id |-> 0, len |-> 0]

\* MsgPacket::write(fd, timeout): the file after the whole packet was written at pos
MsgPacketWrite(pos, p) ==
    [o \in Offsets |->
        IF pos <= o /\ o < pos + p.len
        THEN [id |-> p.id, len |-> p.len, idx |-> o - pos]
        ELSE file[o]]

(* ======================================================================= *)
(* LiveQueue::internalRead                                                 *)
(* ======================================================================= *)

\* the read offset, the wrapped flag and the packet returned (id 0 = NULL)
internalRead(rfd, wfd, wrapped) ==
    LET readPosition0 == Lseek(rfd)
        writePosition == Lseek(wfd)
        wrap          == readPosition0 >= BufferSize
        rfd1          == IF wrap THEN 0 ELSE rfd
        readPosition  == IF wrap THEN 0 ELSE readPosition0
        wrapped1      == IF wrap THEN ~wrapped ELSE wrapped
    IN  IF readPosition >= writePosition /\ ~wrapped1
        THEN [rfd |-> rfd1, wrapped |-> wrapped1, ret |-> 0]
        ELSE LET pk == MsgPacketRead(rfd1)
             IN  [rfd |-> rfd1 + pk.len, wrapped |-> wrapped1, ret |-> pk.id]

(* ======================================================================= *)
(* LiveQueue::seekNextKeyFrame                                             *)
(* ======================================================================= *)

RECURSIVE NextKeyFrameFrom_Inclusive(_, _)
\* NextKeyFrameFrom with the test i->filePosition <= readPosition
NextKeyFrameFrom_Inclusive(i, rfd) ==
    LET readPosition == Lseek(rfd)
        j == i + 1
    IN  IF i > Len(m_indexList) THEN rfd
        ELSE IF j > Len(m_indexList) THEN rfd
        ELSE IF m_indexList[i].filePosition <= readPosition
                /\ readPosition <= m_indexList[j].filePosition
             THEN m_indexList[j].filePosition
             ELSE NextKeyFrameFrom_Inclusive(i + 1, rfd)

RECURSIVE NextKeyFrameFrom(_, _)
\* the loop of seekNextKeyFrame with iterator i (j = i + 1); yields the offset the
\* read descriptor has afterwards
NextKeyFrameFrom(i, rfd) ==
    LET readPosition == Lseek(rfd)
        j == i + 1
    IN  IF i > Len(m_indexList) THEN rfd                 \* loop ends, lseek(readPosition)
        ELSE IF j > Len(m_indexList) THEN rfd            \* return
        ELSE IF m_indexList[i].filePosition < readPosition
                /\ readPosition <= m_indexList[j].filePosition
             THEN m_indexList[j].filePosition             \* break, lseek(j->filePosition)
             ELSE NextKeyFrameFrom(i + 1, rfd)

seekNextKeyFrame(rfd) == NextKeyFrameFrom(1, rfd)

RECURSIVE NextKeyFrameEntry(_, _)
\* the same loop, yielding the position in the index of the entry j the read
\* descriptor is moved to, 0 if it is left where it is
NextKeyFrameEntry(i, rfd) ==
    LET readPosition == Lseek(rfd)
        j == i + 1
    IN  IF i > Len(m_indexList) THEN 0
        ELSE IF j > Len(m_indexList) THEN 0
        ELSE IF m_indexList[i].filePosition < readPosition
                /\ readPosition <= m_indexList[j].filePosition
             THEN j
             ELSE NextKeyFrameEntry(i + 1, rfd)

(* ======================================================================= *)
(* LiveQueue::read                                                         *)
(* ======================================================================= *)

\* read that does not look at m_pause
read_IgnorePause(keyFrameMode) ==
    internalRead(IF keyFrameMode THEN seekNextKeyFrame(m_readFd) ELSE m_readFd,
                 m_writeFd, m_wrapped)

read(keyFrameMode) ==
    IF m_pause
    THEN [rfd |-> m_readFd, wrapped |-> m_wrapped, ret |-> 0]
    ELSE internalRead(IF keyFrameMode THEN seekNextKeyFrame(m_readFd) ELSE m_readFd,
                      m_writeFd, m_wrapped)

(* ======================================================================= *)
(* LiveQueue::trim                                                         *)
(* ======================================================================= *)

\* trim that pops the newest entry instead of the oldest
trim_PopBack(position, hasWrapped, wrapCount, qst) ==
    IF ~hasWrapped \/ m_indexList = << >>
    THEN [index |-> m_indexList, qst |-> qst]
    ELSE LET p   == Head(m_indexList)
             idx == IF p.filePosition < position /\ p.wrapCount < wrapCount
                    THEN SubSeq(m_indexList, 1, Len(m_indexList) - 1) ELSE m_indexList
         IN  [index |-> idx,
              qst   |-> IF idx # << >> THEN Head(idx).wallclockTime ELSE qst]

\* trim that refreshes the queue start time only when it popped an entry
trim_RefreshOnPop(position, hasWrapped, wrapCount, qst) ==
    IF ~hasWrapped \/ m_indexList = << >>
    THEN [index |-> m_indexList, qst |-> qst]
    ELSE LET p == Head(m_indexList)
         IN  IF p.filePosition < position /\ p.wrapCount < wrapCount
             THEN [index |-> Tail(m_indexList),
                   qst   |-> IF Tail(m_indexList) # << >>
                             THEN Head(Tail(m_indexList)).wallclockTime ELSE qst]
             ELSE [index |-> m_indexList, qst |-> qst]

\* the index and the queue start time after trim(position)
trim(position, hasWrapped, wrapCount, qst) ==
    IF ~hasWrapped \/ m_indexList = << >>
    THEN [index |-> m_indexList, qst |-> qst]
    ELSE LET p   == Head(m_indexList)
             idx == IF p.filePosition < position /\ p.wrapCount < wrapCount
                    THEN Tail(m_indexList) ELSE m_indexList
         IN  [index |-> idx,
              qst   |-> IF idx # << >> THEN Head(idx).wallclockTime ELSE qst]

(* ======================================================================= *)
(* LiveQueue::seek                                                         *)
(* ======================================================================= *)

RECURSIVE SeekScan_Forward(_, _)
\* SeekScan walking the index from the oldest entry on
SeekScan_Forward(k, wallclockPositionMs) ==
    IF k = 0 THEN [found |-> FALSE, pos |-> 0, pts |-> 0]
    ELSE LET i == Len(m_indexList) + 1 - k
         IN  IF m_indexList[i].wallclockTime <= wallclockPositionMs
             THEN [found |-> TRUE, pos |-> m_indexList[i].filePosition,
                   pts |-> m_indexList[i].pts]
             ELSE SeekScan_Forward(k - 1, wallclockPositionMs)

RECURSIVE SeekScan(_, _)
\* the "in between" loop of seek: reverse iterator at entry k, 0 = rend
SeekScan(k, wallclockPositionMs) ==
    IF k = 0 THEN [found |-> FALSE, pos |-> 0, pts |-> 0]
    ELSE IF m_indexList[k].wallclockTime <= wallclockPositionMs
         THEN [found |-> TRUE, pos |-> m_indexList[k].filePosition,
               pts |-> m_indexList[k].pts]
         ELSE SeekScan(k - 1, wallclockPositionMs)

\* found: the read descriptor is repositioned to pos; pts is the return value
seek(wallclockPositionMs) ==
    LET n == Len(m_indexList)
    IN  IF n = 0 THEN [found |-> FALSE, pos |-> 0, pts |-> 0]
        ELSE IF wallclockPositionMs >= m_indexList[n].wallclockTime
             THEN [found |-> TRUE, pos |-> m_indexList[n].filePosition,
                   pts |-> m_indexList[n].pts]
        ELSE IF wallclockPositionMs <= m_indexList[1].wallclockTime
             THEN [found |-> TRUE, pos |-> m_indexList[1].filePosition,
                   pts |-> m_indexList[1].pts]
        ELSE SeekScan(n, wallclockPositionMs)

(* ======================================================================= *)
(* LiveQueue::pause                                                        *)
(* ======================================================================= *)

\* the pause flag afterwards and the return value
pause(on) ==
    IF m_pause = on THEN [pause |-> m_pause, ret |-> FALSE]
                    ELSE [pause |-> on, ret |-> TRUE]

(* ======================================================================= *)
(* LiveQueue::write                                                        *)
(* ======================================================================= *)

RECURSIVE ShiftRead_Late(_, _, _, _, _)
\* ShiftRead with the loop test packetEndPosition > readPosition
ShiftRead_Late(packetEndPosition, readPosition, rfd, wfd, wrapped) ==
    IF packetEndPosition > readPosition /\ wrapped
    THEN LET r == internalRead(rfd, wfd, wrapped)
         IN  IF r.ret = 0
             THEN [rfd |-> r.rfd, wrapped |-> r.wrapped, ok |-> FALSE]
             ELSE ShiftRead_Late(packetEndPosition, readPosition, r.rfd, wfd, r.wrapped)
    ELSE [rfd |-> rfd, wrapped |-> wrapped, ok |-> TRUE]

RECURSIVE ShiftRead(_, _, _, _, _)
\* while(packetEndPosition >= readPosition && m_wrapped) internalRead();
\* readPosition is the offset sampled before the loop, rfd the descriptor's offset.
\* ok = FALSE: internalRead returned NULL and write returns at once.
ShiftRead(packetEndPosition, readPosition, rfd, wfd, wrapped) ==
    IF packetEndPosition >= readPosition /\ wrapped
    THEN LET r == internalRead(rfd, wfd, wrapped)
         IN  IF r.ret = 0
             THEN [rfd |-> r.rfd, wrapped |-> r.wrapped, ok |-> FALSE]
             ELSE ShiftRead(packetEndPosition, readPosition, r.rfd, wfd, r.wrapped)
    ELSE [rfd |-> rfd, wrapped |-> wrapped, ok |-> TRUE]

\* WriteWraps with the test writePosition > m_bufferSize
WriteWraps_Late(writePosition) == writePosition > BufferSize

\* the write offset reached the buffer size: the write wraps
WriteWraps(writePosition) == writePosition >= BufferSize

\* the state write(data) leaves behind; timeStamp is currentTimeMillis() and ioOk
\* tells whether MsgPacket::write can succeed.
\*   room    - FALSE: the overrun loop gave up (return NULL before the packet is used)
\*   success - the return value
\*   deleted - delete p was executed
write(data, timeStamp, ioOk) ==
    LET qst1           == IF m_queueStartTime = 0 THEN timeStamp ELSE m_queueStartTime
        writePosition0 == Lseek(m_writeFd)
        readPosition   == Lseek(m_readFd)
        wrap           == WriteWraps(writePosition0)
        wfd1           == IF wrap THEN 0 ELSE m_writeFd
        writePosition  == IF wrap THEN 0 ELSE writePosition0
        wrapped1       == IF wrap THEN ~m_wrapped ELSE m_wrapped
        hasWrapped1    == IF wrap THEN TRUE ELSE m_hasWrapped
        wrapCount1     == IF wrap THEN m_wrapCount + 1 ELSE m_wrapCount
        packetEndPosition == writePosition + data.len
        sh             == ShiftRead(packetEndPosition, readPosition, m_readFd, wfd1, wrapped1)
        t              == trim(packetEndPosition, hasWrapped1, wrapCount1, qst1)
        keyFrame       == data.frame = IFRAME
        index          == IF keyFrame /\ data.content = VIDEO
                          THEN Append(t.index, [filePosition  |-> writePosition,
                                                wallclockTime |-> timeStamp,
                                                pts           |-> data.pts,
                                                wrapCount     |-> wrapCount1])
                          ELSE t.index
        success        == ioOk /\ fdOpen
    IN  IF ~sh.ok
        THEN [rfd |-> sh.rfd, wfd |-> wfd1, wrapped |-> sh.wrapped,
              hasWrapped |-> hasWrapped1, wrapCount |-> wrapCount1,
              index |-> m_indexList, qst |-> qst1, file |-> file,
              wrap |-> wrap, room |-> FALSE, success |-> FALSE, deleted |-> FALSE]
        ELSE [rfd |-> sh.rfd, wfd |-> IF success THEN wfd1 + data.len ELSE wfd1,
              wrapped |-> sh.wrapped,
              hasWrapped |-> hasWrapped1, wrapCount |-> wrapCount1,
              index |-> index, qst |-> t.qst,
              file |-> IF success THEN MsgPacketWrite(writePosition, data) ELSE file,
              wrap |-> wrap, room |-> TRUE, success |-> success, deleted |-> TRUE]

(* ======================================================================= *)
(* LiveQueue::queue                                                        *)
(* ======================================================================= *)

\* QueueFull with the test size() > 400
QueueFull_Late == Len(m_writerQueue) > QueueLimit

\* the submission list is full: the packet is deleted instead of queued
QueueFull == Len(m_writerQueue) >= QueueLimit

\* queue that puts the entry at the front of the list
queue_PushFront(p) ==
    IF QueueFull
    THEN [list |-> m_writerQueue, deleted |-> TRUE]
    ELSE [list |-> << p >> \o m_writerQueue, deleted |-> FALSE]

\* the submission list after queue(p, content, pts) and whether p was deleted
queue(p) ==
    IF QueueFull
    THEN [list |-> m_writerQueue, deleted |-> TRUE]
    ELSE [list |-> Append(m_writerQueue, p), deleted |-> FALSE]

(* ======================================================================= *)
(* Actions                                                                 *)
(* ======================================================================= *)

\* the packets offered to queue(): video keyframes, other video frames, and audio
\* packets (whose client id may equal ftIFRAME)
PacketKinds == {<< IFRAME, VIDEO >>, << PFRAME, VIDEO >>, << IFRAME, AUDIO >>}
Lengths == 1 .. MaxLen

B2N(b) == IF b THEN 1 ELSE 0

Init ==
    /\ file = [o \in Offsets |-> EmptyCell]
    /\ m_readFd = 0
    /\ m_writeFd = 0
    /\ fdOpen = TRUE
    /\ m_wrapped = FALSE
    /\ m_hasWrapped = FALSE
    /\ m_wrapCount = 0
    /\ m_indexList = << >>
    /\ m_pause = FALSE
    /\ m_queueStartTime = 0
    /\ m_writerQueue = << >>
    /\ m_writerRunning = TRUE
    /\ writerPc = "idle"
    /\ writerP = NoPacket
    /\ phase = "live"
    /\ now = 1
    /\ nextId = 1
    /\ destroyed = << >>
    /\ persisted = << >>
    /\ delivered = {}
    /\ cumBytes = 0
    /\ lapEnd = 0
    /\ seekUsed = FALSE
    /\ ioFails = 0
    /\ readLap = 0
    /\ m_mutex = "free"
    /\ m_mutexQueue = "free"
    /\ producerPc = "idle"
    /\ consumerPc = "idle"
    /\ last = [op |-> "init", arg |-> 0, ret |-> 0, aux |-> 0, start |-> 0, pruned |-> 0]

\* the body of queue(p, content, pts), run with the submission-list lock held; the
\* packet gets the next id and its presentation timestamp is its id
QueueCallLocked(len, frame, content) ==
    /\ phase = "live"
    /\ LET p == [id |-> nextId, len |-> len, frame |-> frame, content |-> content,
                 pts |-> nextId]
           q == queue(p)
       IN  /\ m_writerQueue' = q.list
           /\ destroyed' = Append(destroyed, B2N(q.deleted))
           /\ last' = [op |-> "queue", arg |-> nextId, ret |-> 0, aux |-> B2N(q.deleted),
                      start |-> 0, pruned |-> 0]
    /\ nextId' = nextId + 1
    /\ UNCHANGED << ringVars, fdOpen, m_pause, m_writerRunning, writerPc, writerP, phase,
                    delivered, seekUsed >>

\* a producer calls queue(p, content, pts): lock, body and unlock in one step
QueueCall(len, frame, content) ==
    QueueCallLocked(len, frame, content) /\ UNCHANGED lockVars

\* the front entry of the submission list
front(list) == Head(list)

\* writer thread, with the submission-list lock held: take the front entry off the
\* submission list
WriterPopLocked ==
    /\ writerPc = "idle"
    /\ m_writerRunning
    /\ m_writerQueue # << >>
    /\ writerP' = front(m_writerQueue)
    /\ m_writerQueue' = Tail(m_writerQueue)
    /\ writerPc' = "popped"
    /\ UNCHANGED << ringVars, fdOpen, m_pause, m_writerRunning, phase, nextId, destroyed,
                    delivered, seekUsed, last >>

\* writer thread: lock the submission list, pop, unlock, in one step
WriterPop == WriterPopLocked /\ UNCHANGED lockVars

\* the lap after the read cursor wrapped once more
NextLap(lap) == Min(lap + 1, MaxReadLap)

\* the front entry of index before is no longer the front entry of index after
Popped(before, after) ==
    /\ before # << >>
    /\ (after = << >> \/ Head(after) # Head(before))

\* writer thread, with the ring-buffer lock held: the body of write(p) for the entry
\* it holds
WriterWriteLocked(timeStamp, ioOk) ==
    /\ writerPc = "popped"
    /\ LET w == write(writerP, timeStamp, ioOk)
       IN  /\ file' = w.file
           /\ m_readFd' = w.rfd
           /\ m_writeFd' = w.wfd
           /\ m_wrapped' = w.wrapped
           /\ m_hasWrapped' = w.hasWrapped
           /\ m_wrapCount' = w.wrapCount
           /\ m_indexList' = w.index
           /\ m_queueStartTime' = w.qst
           /\ destroyed' = IF w.deleted
                           THEN [destroyed EXCEPT ![writerP.id] = @ + 1]
                           ELSE destroyed
           /\ persisted' = IF w.success THEN Append(persisted, writerP.id) ELSE persisted
           /\ cumBytes' = IF w.success THEN cumBytes + writerP.len ELSE cumBytes
           /\ lapEnd' = IF w.wrap THEN m_writeFd ELSE lapEnd
           /\ ioFails' = IF w.room /\ ~ioOk THEN ioFails + 1 ELSE ioFails
           /\ readLap' = IF w.wrapped # (IF w.wrap THEN ~m_wrapped ELSE m_wrapped)
                          THEN NextLap(readLap) ELSE readLap
           /\ last' = [op |-> "write", arg |-> writerP.id, ret |-> B2N(w.success),
                       aux |-> B2N(w.room), start |-> m_queueStartTime,
                       pruned |-> B2N(w.room /\ Popped(m_indexList, w.index))]
    /\ now' = timeStamp
    /\ writerPc' = "idle"
    /\ writerP' = NoPacket
    /\ UNCHANGED << fdOpen, m_pause, m_writerQueue, m_writerRunning, phase, nextId,
                    delivered, seekUsed >>

\* writer thread: write(p): lock, body and unlock in one step
WriterWrite(timeStamp, ioOk) ==
    WriterWriteLocked(timeStamp, ioOk) /\ UNCHANGED lockVars

\* writer thread: m_writerRunning is false, the thread function returns
WriterExit ==
    /\ writerPc = "idle"
    /\ ~m_writerRunning
    /\ writerPc' = "exited"
    /\ UNCHANGED << ringVars, fdOpen, m_pause, m_writerQueue, m_writerRunning, writerP,
                    phase, nextId, destroyed, delivered, seekUsed, last, lockVars >>

\* the body of read(keyFrameMode), run with the ring-buffer lock held
ReadCallLocked(keyFrameMode) ==
    /\ phase = "live"
    /\ LET r == read(keyFrameMode)
       IN  /\ m_readFd' = r.rfd
           /\ m_wrapped' = r.wrapped
           /\ delivered' = IF r.ret # 0 THEN delivered \cup {r.ret} ELSE delivered
           /\ last' = [op |-> "read", arg |-> B2N(keyFrameMode), ret |-> r.ret, aux |-> 0,
                       start |-> 0, pruned |-> 0]
    /\ seekUsed' = (seekUsed \/ (keyFrameMode /\ ~m_pause))
    /\ LET j   == IF keyFrameMode /\ ~m_pause THEN NextKeyFrameEntry(1, m_readFd) ELSE 0
           lap == IF j # 0 THEN m_indexList[j].wrapCount ELSE readLap
       IN  readLap' = IF read(keyFrameMode).wrapped # m_wrapped THEN NextLap(lap) ELSE lap
    /\ UNCHANGED << file, m_writeFd, fdOpen, m_hasWrapped, m_wrapCount, m_indexList,
                    m_pause, m_queueStartTime, m_writerQueue, m_writerRunning, writerPc,
                    writerP, phase, now, nextId, destroyed, persisted, cumBytes, lapEnd, ioFails >>

\* a consumer calls read(keyFrameMode): lock, body and unlock in one step
ReadCall(keyFrameMode) == ReadCallLocked(keyFrameMode) /\ UNCHANGED lockVars

\* the index entry of the packet with presentation timestamp pts
EntryOf(pts) == m_indexList[CHOOSE k \in 1 .. Len(m_indexList) : m_indexList[k].pts = pts]

\* the body of seek(wallclockPositionMs), run with the ring-buffer lock held
SeekCallLocked(wallclockPositionMs) ==
    /\ phase = "live"
    /\ LET s == seek(wallclockPositionMs)
       IN  /\ m_readFd' = IF s.found THEN s.pos ELSE m_readFd
           /\ seekUsed' = (seekUsed \/ s.found)
           /\ readLap' = IF s.found THEN EntryOf(s.pts).wrapCount ELSE readLap
           /\ last' = [op |-> "seek", arg |-> 0, ret |-> s.pts, aux |-> B2N(s.found),
                       start |-> 0, pruned |-> 0]
    /\ UNCHANGED << file, m_writeFd, fdOpen, m_wrapped, m_hasWrapped, m_wrapCount,
                    m_indexList, m_pause, m_queueStartTime, m_writerQueue, m_writerRunning,
                    writerPc, writerP, phase, now, nextId, destroyed, persisted, delivered,
                    cumBytes, lapEnd, ioFails >>

\* a consumer calls seek(wallclockPositionMs): lock, body and unlock in one step
SeekCall(wallclockPositionMs) == SeekCallLocked(wallclockPositionMs) /\ UNCHANGED lockVars

\* a consumer calls pause(on)
PauseCall(on) ==
    /\ phase = "live"
    /\ LET r == pause(on)
       IN  /\ m_pause' = r.pause
           /\ last' = [op |-> "pause", arg |-> B2N(on), ret |-> B2N(r.ret), aux |-> 0,
                       start |-> 0, pruned |-> 0]
    /\ UNCHANGED << ringVars, fdOpen, m_writerQueue, m_writerRunning, writerPc, writerP,
                    phase, nextId, destroyed, delivered, seekUsed, lockVars >>

\* ~LiveQueue, first part: m_writerRunning = false; close();
DtorClose ==
    /\ phase = "live"
    /\ m_writerRunning' = FALSE
    /\ fdOpen' = FALSE
    /\ phase' = "closing"
    /\ UNCHANGED << ringVars, m_pause, m_writerQueue, writerPc, writerP, nextId, destroyed,
                    delivered, seekUsed, last, lockVars >>

\* destroyed after every entry of list was deleted once more
DrainDeletes(list) ==
    [i \in 1 .. Len(destroyed) |->
        destroyed[i] + Cardinality({k \in 1 .. Len(list) : list[k].id = i})]

\* ~LiveQueue, second part: join the writer thread, then drain the submission list
DtorDrain ==
    /\ phase = "closing"
    /\ writerPc = "exited"
    /\ destroyed' = DrainDeletes(m_writerQueue)
    /\ m_writerQueue' = << >>
    /\ phase' = "terminated"
    /\ UNCHANGED << ringVars, fdOpen, m_pause, m_writerRunning, writerPc, writerP, nextId,
                    delivered, seekUsed, last, lockVars >>

Clock == {now, Min(now + 1, MaxTime)}

SeekTargets == 0 .. (MaxTime + 1)

\* producer: queue() with any packet, at most MaxPending entries ahead of the writer
Producer ==
    \E len \in Lengths, kind \in PacketKinds :
        /\ nextId <= MaxPackets
        /\ Len(m_writerQueue) < MaxPending
        /\ QueueCall(len, kind[1], kind[2])

\* the writer thread's write, with currentTimeMillis() and the outcome of the file write
Writer ==
    \E timeStamp \in Clock, ioOk \in BOOLEAN :
        (ioOk \/ ioFails < MaxIoFail) /\ WriterWrite(timeStamp, ioOk)

\* Producer, writer thread and a consumer that reads and seeks
Next ==
    \/ Producer
    \/ WriterPop
    \/ Writer
    \/ \E keyFrameMode \in BOOLEAN : ReadCall(keyFrameMode)
    \/ \E wallclockPositionMs \in SeekTargets : SeekCall(wallclockPositionMs)

Spec == Init /\ [][Next]_vars

\* Producer, writer thread (clock held, file writes succeed) and a consumer that
\* reads and pauses
NextPause ==
    \/ Producer
    \/ WriterPop
    \/ WriterWrite(now, TRUE)
    \/ \E keyFrameMode \in BOOLEAN : ReadCall(keyFrameMode)
    \/ \E on \in BOOLEAN : PauseCall(on)

SpecPause == Init /\ [][NextPause]_vars

\* Producer, writer thread, a consumer that reads, and the destructor
NextShutdown ==
    \/ Producer
    \/ WriterPop
    \/ Writer
    \/ WriterExit
    \/ ReadCall(FALSE)
    \/ DtorClose
    \/ DtorDrain

SpecShutdown == Init /\ [][NextShutdown]_vars

\* producer that offers up to MaxBurst equal packets, however long the list is
ProducerBurst ==
    /\ nextId <= MaxBurst
    /\ QueueCall(1, PFRAME, VIDEO)

\* A producer burst against the writer thread
NextBurst ==
    \/ ProducerBurst
    \/ WriterPop
    \/ WriterWrite(now, TRUE)

SpecBurst == Init /\ [][NextBurst]_vars

(* ----------------------------------------------------------------------- *)
(* The two locks: one step per lock_guard construction and destruction     *)
(* ----------------------------------------------------------------------- *)

\* the producer enters queue() and reaches the lock_guard on m_mutexQueue
QueueEnter ==
    /\ producerPc = "idle"
    /\ phase = "live"
    /\ nextId <= MaxPackets
    /\ producerPc' = "called"
    /\ UNCHANGED << dataVars, m_mutex, m_mutexQueue, consumerPc >>

\* queue(): the lock_guard takes m_mutexQueue
QueueLock ==
    /\ producerPc = "called"
    /\ m_mutexQueue = "free"
    /\ m_mutexQueue' = "producer"
    /\ UNCHANGED << dataVars, m_mutex, producerPc, consumerPc >>

\* queue(): the body runs and the lock_guard releases m_mutexQueue on return
QueueUnlock(len, frame, content) ==
    /\ m_mutexQueue = "producer"
    /\ QueueCallLocked(len, frame, content)
    /\ m_mutexQueue' = "free"
    /\ producerPc' = "idle"
    /\ UNCHANGED << m_mutex, consumerPc >>

\* writer thread: the list is not empty, the lock_guard in the block takes m_mutexQueue
WriterPopLock ==
    /\ writerPc = "idle"
    /\ m_writerRunning
    /\ m_writerQueue # << >>
    /\ m_mutexQueue = "free"
    /\ m_mutexQueue' = "writer"
    /\ UNCHANGED << dataVars, m_mutex, producerPc, consumerPc >>

\* WriterPopUnlock with a lock_guard that is not released at the end of the block
WriterPopUnlock_KeepLock ==
    /\ m_mutexQueue = "writer"
    /\ WriterPopLocked
    /\ UNCHANGED lockVars

\* writer thread: front(), pop_front(), and the block ends: m_mutexQueue is released
WriterPopUnlock ==
    /\ m_mutexQueue = "writer"
    /\ WriterPopLocked
    /\ m_mutexQueue' = "free"
    /\ UNCHANGED << m_mutex, producerPc, consumerPc >>

\* write(): the lock_guard takes m_mutex
WriterWriteLock ==
    /\ writerPc = "popped"
    /\ m_mutex = "free"
    /\ m_mutex' = "writer"
    /\ UNCHANGED << dataVars, m_mutexQueue, producerPc, consumerPc >>

\* write(): the body runs and the lock_guard releases m_mutex on return
WriterWriteUnlock(timeStamp, ioOk) ==
    /\ m_mutex = "writer"
    /\ WriterWriteLocked(timeStamp, ioOk)
    /\ m_mutex' = "free"
    /\ UNCHANGED << m_mutexQueue, producerPc, consumerPc >>

\* the consumer enters read() or seek() and reaches the lock_guard on m_mutex
ConsumerEnter ==
    /\ consumerPc = "idle"
    /\ phase = "live"
    /\ consumerPc' = "called"
    /\ UNCHANGED << dataVars, m_mutex, m_mutexQueue, producerPc >>

\* read() or seek(): the lock_guard takes m_mutex
ConsumerLock ==
    /\ consumerPc = "called"
    /\ m_mutex = "free"
    /\ m_mutex' = "consumer"
    /\ UNCHANGED << dataVars, m_mutexQueue, producerPc, consumerPc >>

\* read(): the body runs and the lock_guard releases m_mutex on return
ReadUnlock(keyFrameMode) ==
    /\ m_mutex = "consumer"
    /\ ReadCallLocked(keyFrameMode)
    /\ m_mutex' = "free"
    /\ consumerPc' = "idle"
    /\ UNCHANGED << m_mutexQueue, producerPc >>

\* seek(): the body runs and the lock_guard releases m_mutex on return
SeekUnlock(wallclockPositionMs) ==
    /\ m_mutex = "consumer"
    /\ SeekCallLocked(wallclockPositionMs)
    /\ m_mutex' = "free"
    /\ consumerPc' = "idle"
    /\ UNCHANGED << m_mutexQueue, producerPc >>

\* the producer's queue() body with a video keyframe of any length
ProducerUnlock ==
    \E len \in Lengths : QueueUnlock(len, IFRAME, VIDEO)

\* Producer, writer thread and consumer, with the lock operations as steps of their
\* own (clock held, file writes succeed)
NextLocks ==
    \/ QueueEnter
    \/ QueueLock
    \/ ProducerUnlock
    \/ WriterPopLock
    \/ WriterPopUnlock
    \/ WriterWriteLock
    \/ WriterWriteUnlock(now, TRUE)
    \/ ConsumerEnter
    \/ ConsumerLock
    \/ ReadUnlock(FALSE)
    \/ \E wallclockPositionMs \in SeekTargets : SeekUnlock(wallclockPositionMs)

\* A thread inside a critical section of m_mutexQueue leaves it, and a thread blocked
\* on m_mutexQueue gets it if it is free again and again.  Nothing is assumed about
\* m_mutex: a write(), read() or seek() may take for ever.
SpecLocks ==
    /\ Init
    /\ [][NextLocks]_vars
    /\ WF_vars(ProducerUnlock)
    /\ WF_vars(WriterPopUnlock)
    /\ SF_vars(QueueLock)

(* ======================================================================= *)
(* Claims                                                                  *)
(* ======================================================================= *)

\* the last call was write() and it has just returned
AfterWrite == last.op = "write"

\* the unread bytes between the read and the write cursor; while m_wrapped is true
\* the write cursor is one lap ahead: the bytes up to the end of the previous lap plus
\* the bytes of the current lap
Backlog ==
    IF m_wrapped THEN (lapEnd - m_readFd) + m_writeFd
                 ELSE m_writeFd - m_readFd

StoredIds == {file[o].id : o \in {x \in Offsets : Intact(x)}}

RECURSIVE SeqReadable(_, _, _)
\* the ids that up to n successive read(false) calls return from read offset rfd when
\* nothing more is written (a read that returns none is followed by none)
SeqReadable(rfd, wrapped, n) ==
    IF n = 0 THEN {}
    ELSE LET r == internalRead(rfd, m_writeFd, wrapped)
         IN  IF r.ret = 0 THEN {}
             ELSE {r.ret} \cup SeqReadable(r.rfd, r.wrapped, n - 1)

\* C2 as stated: with writes and sequential reads only (no seek), every packet that
\* is stored and not overwritten, and that the consumer has not been given yet, is
\* still returned by sequential reads.
C2_NoLossBeforeOverwrite ==
    ~seekUsed =>
        \A id \in StoredIds \ delivered :
            id \in SeqReadable(m_readFd, m_wrapped, 2 * MaxPackets + 2)

RECURSIVE TilesTo(_, _)
\* whole packets lie back to back from pos to end
TilesTo(pos, end) ==
    IF pos >= end THEN pos = end
    ELSE Intact(pos) /\ TilesTo(pos + file[pos].len, end)

\* every unread packet ahead of the read cursor is whole and decodable
UnreadIntact ==
    IF m_wrapped
    THEN TilesTo(m_readFd, lapEnd) /\ TilesTo(0, m_writeFd)
    ELSE m_readFd <= m_writeFd /\ TilesTo(m_readFd, m_writeFd)

\* the writer thread's write() call
WriteStep == writerPc = "popped" /\ writerPc' = "idle"

\* C3 as stated: a write made while the descriptors are open and every unread packet
\* ahead of the read cursor is whole does not give up for lack of room (the overrun
\* loop ends with room made), also when it wraps the write cursor to 0.
C3_RoomMadeWhenReadable ==
    [][(WriteStep /\ fdOpen /\ UnreadIntact) => last'.aux = 1]_vars

\* the consumer has been given every packet written so far and has not repositioned
CaughtUp ==
    /\ ~seekUsed
    /\ persisted # << >>
    /\ \A i \in 1 .. Len(persisted) : persisted[i] \in delivered

\* C5 as stated: a read() made when the consumer has already read every packet the
\* writer has persisted returns none.
C5_CaughtUpReadsNone ==
    [][(ReadCall(FALSE) /\ CaughtUp) => last'.ret = 0]_vars

\* the reference result of seek: the position in the index of the entry to seek to
\* (0 for an empty index)
RefSeek(target) ==
    LET n  == Len(m_indexList)
        wc(k) == m_indexList[k].wallclockTime
    IN  IF n = 0 THEN 0
        ELSE IF target >= wc(n) THEN n
        ELSE IF target <= wc(1) THEN 1
        ELSE CHOOSE k \in 1 .. n :
                /\ wc(k) <= target
                /\ \A j \in (k + 1) .. n : wc(j) > target

\* seek(target), evaluated in the current state, yields the reference entry
SeekAgrees(target) ==
    LET s == seek(target)
        e == RefSeek(target)
    IN  IF e = 0
        THEN ~s.found /\ s.pts = 0
        ELSE /\ s.found
             /\ s.pos = m_indexList[e].filePosition
             /\ s.pts = m_indexList[e].pts
             /\ (m_indexList[1].wallclockTime < target
                   => m_indexList[e].wallclockTime <= target)

\* C4: seek(target) on an empty index returns 0 and leaves the read cursor alone;
\* otherwise it moves the read cursor to the offset of the reference entry (newest if
\* target is at or after it, oldest if target is at or before it, else the latest
\* entry not after target) and returns that entry's presentation timestamp.  Checked
\* for every index content reached and for every seek() call made.
C4_SeekMatchesReference ==
    [][/\ (\A target \in SeekTargets : SeekAgrees(target))'
       /\ \A target \in SeekTargets :
             SeekCall(target) =>
                LET e == RefSeek(target)
                IN  IF e = 0
                    THEN last'.ret = 0 /\ m_readFd' = m_readFd
                    ELSE /\ m_readFd' = m_indexList[e].filePosition
                         /\ last'.ret = m_indexList[e].pts]_vars

\* C4 witness: a seek between the oldest and the newest entry has returned the middle
\* one of three entries with different write times
C4_Witness ==
    /\ last.op = "seek"
    /\ Len(m_indexList) = 3
    /\ m_indexList[1].wallclockTime < m_indexList[2].wallclockTime
    /\ m_indexList[2].wallclockTime < m_indexList[3].wallclockTime
    /\ last.ret = m_indexList[2].pts
    /\ m_readFd = m_indexList[2].filePosition

\* C6 as stated: every packet passed to queue() is destroyed exactly once: never
\* twice, a packet not destroyed yet is still in the submission list or in the writer
\* thread's hands, and after shutdown every packet has been destroyed.
C6_DestroyedExactlyOnce ==
    \A id \in 1 .. Len(destroyed) :
        /\ destroyed[id] <= 1
        /\ destroyed[id] = 0 =>
              \/ writerP.id = id
              \/ \E k \in 1 .. Len(m_writerQueue) : m_writerQueue[k].id = id
        /\ phase = "terminated" => destroyed[id] = 1

\* C8: pause(on) returns true exactly when on differs from the paused state and
\* leaves isPaused() = on; while paused, read() in either mode returns none and
\* changes neither the read cursor, the wrapped flag nor the index.
C8_PauseAndPausedRead ==
    [][/\ (m_pause => \A keyFrameMode \in BOOLEAN :
              read(keyFrameMode) = [rfd |-> m_readFd, wrapped |-> m_wrapped, ret |-> 0])'
       /\ \A on \in BOOLEAN :
             PauseCall(on) => /\ last'.ret = B2N(on # m_pause)
                              /\ m_pause' = on
       /\ \A keyFrameMode \in BOOLEAN :
             (ReadCall(keyFrameMode) /\ m_pause) =>
                 /\ last'.ret = 0
                 /\ m_readFd' = m_readFd
                 /\ m_wrapped' = m_wrapped
                 /\ m_indexList' = m_indexList]_vars

\* C8 witness: a read made while paused has returned none although a whole unread
\* packet lies at the read cursor
C8_Witness ==
    /\ m_pause
    /\ last.op = "read"
    /\ last.ret = 0
    /\ m_readFd < m_writeFd
    /\ Intact(m_readFd)

\* C9 as stated: once more than a capacity has been written, after each write the
\* write offset is the cumulative size modulo the capacity and the wrap generation
\* is the cumulative size divided by the capacity.
C9_OffsetIsCumulativeModCapacity ==
    (AfterWrite /\ cumBytes > BufferSize) =>
        /\ m_writeFd = cumBytes % BufferSize
        /\ m_wrapCount = cumBytes \div BufferSize

\* C9 amended: the write offset is not reduced modulo the capacity.  A lap ends with
\* the first packet that reaches or crosses the capacity, so after each write the
\* write offset is at most capacity + longest packet - 1; the offset returns to 0 and
\* the generation is counted at the start of the next write.  Every counted lap holds
\* between capacity and capacity + longest packet - 1 bytes:
\*   generation * capacity + offset <= cumulative size
\*                                  <= generation * (capacity + longest - 1) + offset.
C9_OffsetWithinLap ==
    AfterWrite =>
        /\ 0 <= m_writeFd
        /\ m_writeFd <= BufferSize + MaxLen - 1
        /\ m_wrapCount * BufferSize + m_writeFd <= cumBytes
        /\ cumBytes <= m_wrapCount * (BufferSize + MaxLen - 1) + m_writeFd
        /\ m_wrapCount <= cumBytes \div BufferSize

\* C9 witness: in a lap after the first, a write has ended beyond the capacity
C9_Witness ==
    /\ AfterWrite
    /\ last.ret = 1
    /\ m_wrapCount >= 1
    /\ m_writeFd > BufferSize
    /\ m_writeFd # cumBytes % BufferSize

\* the writer thread has not taken anything off the submission list yet
WriterStalled ==
    /\ writerPc = "idle"
    /\ persisted = << >>
    /\ m_writeFd = 0
    /\ ~m_hasWrapped

\* C7: the submission list never holds more than 400 entries; queue() on a list of
\* 400 entries destroys the offered packet and leaves the list as it is, on a shorter
\* list it appends the packet; so with the writer stalled, 401 or more queue() calls
\* leave exactly the first 400 packets in the list and every later one destroyed.
C7_DropWhenFull ==
    [][/\ Len(m_writerQueue') <= QueueLimit
       /\ (ProducerBurst /\ Len(m_writerQueue) = QueueLimit) =>
              /\ m_writerQueue' = m_writerQueue
              /\ destroyed'[nextId] = 1
       /\ (ProducerBurst /\ Len(m_writerQueue) < QueueLimit) =>
              /\ Len(m_writerQueue') = Len(m_writerQueue) + 1
              /\ m_writerQueue'[Len(m_writerQueue')].id = nextId
              /\ destroyed'[nextId] = 0
       /\ (nextId' > QueueLimit + 1 /\ WriterStalled') =>
              /\ Len(m_writerQueue') = QueueLimit
              /\ \A i \in 1 .. QueueLimit : m_writerQueue'[i].id = i
              /\ \A i \in (QueueLimit + 1) .. (nextId' - 1) : destroyed'[i] = 1]_vars

\* C7 witness: 401 packets were offered while the writer was stalled; the list holds
\* 400 and the 401st was destroyed
C7_Witness ==
    /\ nextId = QueueLimit + 2
    /\ WriterStalled
    /\ Len(m_writerQueue) = QueueLimit
    /\ destroyed[QueueLimit + 1] = 1
    /\ last.op = "queue"

\* C10: packet ids count the queue() calls, so acceptance order is id order.  Every
\* packet the writer persists was accepted after the packet persisted before it and
\* before every packet still waiting in the submission list.
C10_FifoPersist ==
    [][persisted' # persisted =>
          /\ persisted' = Append(persisted, writerP.id)
          /\ persisted # << >> => persisted[Len(persisted)] < writerP.id
          /\ \A k \in 1 .. Len(m_writerQueue) : writerP.id < m_writerQueue[k].id]_vars

\* C10 witness: packets were persisted while others, accepted while the writer was
\* busy, were waiting in the submission list
C10_Witness ==
    /\ Len(persisted) >= 2
    /\ Len(m_writerQueue) >= 2
    /\ writerPc = "popped"

\* trim, called by the write step being taken, has popped the oldest index entry
Pruned == last'.pruned = 1

\* C11 as stated: the start time is unset until the first successful write sets it to
\* that write's time; afterwards it changes only in a write whose trim pops the oldest
\* entry, to the time of the new oldest entry (unchanged if the index became empty);
\* a write that pops nothing, and every other call, leaves it unchanged.
C11_StartTimeAsStated ==
    [][/\ ~WriteStep => m_queueStartTime' = m_queueStartTime
       /\ WriteStep =>
             m_queueStartTime' =
                IF persisted = << >>
                THEN (IF last'.ret = 1 THEN now' ELSE 0)
                ELSE IF Pruned /\ Tail(m_indexList) # << >>
                     THEN Head(Tail(m_indexList)).wallclockTime
                     ELSE m_queueStartTime]_vars

\* C11 amended: the start time is set by the first write() call, successful or not,
\* to that call's time.  A write that finds room after the write cursor has wrapped
\* at least once, and whose index is not empty after trim, sets it to the time of the
\* oldest entry left by trim, whether or not trim popped an entry.  Every other write
\* and every other call leaves it unchanged.
C11_StartTimeIsOldestAfterWrap ==
    [][/\ ~WriteStep => m_queueStartTime' = m_queueStartTime
       /\ WriteStep =>
             LET first == IF m_queueStartTime = 0 THEN now' ELSE m_queueStartTime
                 rest  == IF Pruned THEN Tail(m_indexList) ELSE m_indexList
             IN  m_queueStartTime' =
                    IF last'.aux = 1 /\ m_hasWrapped' /\ rest # << >>
                    THEN Head(rest).wallclockTime
                    ELSE first]_vars

\* C11 witness: a write whose trim popped nothing has changed a start time that was
\* already set
C11_Witness ==
    /\ AfterWrite
    /\ last.pruned = 0
    /\ last.start # 0
    /\ m_queueStartTime # last.start
    /\ ioFails = 0

\* C12 as stated: the wrapped flag is true exactly when the write cursor has wrapped
\* once more than the read cursor and false exactly when both are in the same lap;
\* the read cursor is never a lap ahead of the write cursor.
C12_WrappedIffWriterOneLapAhead ==
    /\ m_wrapped <=> (m_wrapCount = readLap + 1)
    /\ ~m_wrapped <=> (m_wrapCount = readLap)
    /\ readLap <= m_wrapCount

RECURSIVE MinimalShift(_, _, _, _)
\* the forcing the claim describes: skip one packet at a time while the write range,
\* which ends at packetEndPosition, reaches the read offset as it is now
MinimalShift(packetEndPosition, rfd, wfd, wrapped) ==
    IF packetEndPosition >= Lseek(rfd) /\ wrapped
    THEN LET r == internalRead(rfd, wfd, wrapped)
         IN  IF r.ret = 0
             THEN [rfd |-> r.rfd, wrapped |-> r.wrapped]
             ELSE MinimalShift(packetEndPosition, r.rfd, wfd, r.wrapped)
    ELSE [rfd |-> rfd, wrapped |-> wrapped]

\* C13 as stated: a write leaves the read cursor where the minimal forcing leaves it:
\* forced forward packet by packet only until the write range no longer reaches the
\* updated read offset, no unread packet beyond that point being skipped.
C13_MinimalForcing ==
    [][WriteStep =>
          LET wrap     == WriteWraps(Lseek(m_writeFd))
              wfd1     == IF wrap THEN 0 ELSE m_writeFd
              wrapped1 == IF wrap THEN ~m_wrapped ELSE m_wrapped
              m        == MinimalShift(wfd1 + writerP.len, m_readFd, wfd1, wrapped1)
          IN  /\ m_readFd' = m.rfd
              /\ m_wrapped' = m.wrapped]_vars

\* the index entry e points at the start of the whole packet it was recorded for
EntryIntact(e) ==
    /\ Intact(e.filePosition)
    /\ file[e.filePosition].id = e.pts

\* C14 as stated: after every write() no index entry remains whose bytes have been
\* overwritten: the file offset of every entry is the start of its keyframe packet
\* and that packet is whole in the file.
C14_IndexEntriesIntact ==
    AfterWrite => \A k \in 1 .. Len(m_indexList) : EntryIntact(m_indexList[k])

\* C15 as stated: a write leaves an index entry for its packet only if the packet is
\* a video keyframe and was persisted by that write; a write that fails, for lack of
\* room or in the file write, and a write of any other packet leave no entry for it.
C15_EntryOnlyWhenPersisted ==
    [][WriteStep =>
          LET id == writerP.id
          IN  (\E k \in 1 .. Len(m_indexList') : m_indexList'[k].pts = id) =>
                 /\ writerP.frame = IFRAME
                 /\ writerP.content = VIDEO
                 /\ last'.ret = 1]_vars

Threads == {"producer", "writer", "consumer"}

\* thread t is at a lock_guard whose lock another thread holds
Blocked(t) ==
    \/ t = "producer" /\ producerPc = "called" /\ m_mutexQueue \notin {"free", t}
    \/ t = "consumer" /\ consumerPc = "called" /\ m_mutex \notin {"free", t}
    \/ t = "writer" /\ writerPc = "popped" /\ m_mutex \notin {"free", t}
    \/ t = "writer" /\ writerPc = "idle" /\ m_writerQueue # << >>
          /\ m_mutexQueue \notin {"free", t}

\* thread t holds a lock
Holds(t) == m_mutex = t \/ m_mutexQueue = t

\* no thread holds both locks; the producer never holds m_mutex; the writer thread
\* holds m_mutexQueue only before it has popped, so never while it waits for or holds
\* m_mutex; no thread that holds a lock is blocked on the other one, so no cycle of
\* waiting threads (deadlock) exists
LockInvariant ==
    /\ \A t \in Threads : ~(m_mutex = t /\ m_mutexQueue = t)
    /\ m_mutex # "producer"
    /\ m_mutexQueue # "consumer"
    /\ m_mutexQueue = "writer" => (writerPc = "idle" /\ m_writerQueue # << >>)
    /\ m_mutex = "writer" => writerPc = "popped"
    /\ \A t \in Threads : Holds(t) => ~Blocked(t)

\* C16: queue() takes only the submission-list lock; the writer thread holds that
\* lock only while it pops one entry, never while it holds or waits for the
\* ring-buffer lock; no thread holds both locks and no deadlock is reachable; and a
\* queue() call always completes, even if a write, read or seek that is in progress
\* never returns.
C16_LockIndependence ==
    /\ []LockInvariant
    /\ (producerPc = "called") ~> (producerPc = "idle")

\* C16 witness: the producer is inside queue() with the submission-list lock while
\* the writer thread is inside write() with the ring-buffer lock and the consumer is
\* blocked in read() or seek()
C16_Witness ==
    /\ m_mutexQueue = "producer"
    /\ m_mutex = "writer"
    /\ consumerPc = "called"

\* the positions i of the index with entry i before and entry i + 1 at or after
\* the read offset
PairsAround(readOffset) ==
    {i \in 1 .. (Len(m_indexList) - 1) :
        /\ m_indexList[i].filePosition < readOffset
        /\ readOffset <= m_indexList[i + 1].filePosition}

\* the reference repositioning: the offset of entry j of the first such pair (i, j),
\* the read offset itself if there is none
RefNextKeyFrame(readOffset) ==
    IF PairsAround(readOffset) = {} THEN readOffset
    ELSE LET i == CHOOSE x \in PairsAround(readOffset) :
                      \A y \in PairsAround(readOffset) : x <= y
         IN  m_indexList[i + 1].filePosition

\* the read offsets a descriptor can have
ReadOffsets == 0 .. (BufferSize + MaxLen - 1)

\* C17: for every index reached and every read offset, seekNextKeyFrame moves the read
\* cursor to the offset of entry j of the first adjacent pair (i, j), in list order,
\* with i.offset < readOffset <= j.offset, and leaves it unchanged if there is no such
\* pair (in particular with fewer than two entries); it never moves it backward; and
\* an unpaused read(true) is that repositioning followed by the ordinary read.
C17_KeyFrameReadMatchesReference ==
    [][/\ (\A r \in ReadOffsets :
              /\ seekNextKeyFrame(r) = RefNextKeyFrame(r)
              /\ seekNextKeyFrame(r) >= r
              /\ Len(m_indexList) < 2 => seekNextKeyFrame(r) = r)'
       /\ (ReadCall(TRUE) /\ ~m_pause) =>
              LET r == internalRead(RefNextKeyFrame(m_readFd), m_writeFd, m_wrapped)
              IN  /\ m_readFd' = r.rfd
                  /\ m_wrapped' = r.wrapped
                  /\ last'.ret = r.ret]_vars

\* C17 witness: a read(true) has skipped a stored packet that lay between two index
\* entries and has returned the keyframe of the second entry
C17_Witness ==
    /\ last.op = "read"
    /\ last.arg = 1
    /\ ~m_hasWrapped
    /\ \E k \in 2 .. Len(m_indexList) :
          /\ last.ret = m_indexList[k].pts
          /\ m_readFd > m_indexList[k].filePosition
          /\ \E o \in Offsets :
                /\ m_indexList[k - 1].filePosition < o
                /\ o < m_indexList[k].filePosition
                /\ Intact(o)
                /\ file[o].id \notin delivered

\* the index, front to back, has non-decreasing wrap generation and wall-clock time
\* and, within one generation, non-decreasing file offset
IndexOrdered ==
    \A k \in 1 .. (Len(m_indexList) - 1) :
        LET a == m_indexList[k]
            b == m_indexList[k + 1]
        IN  /\ a.wrapCount <= b.wrapCount
            /\ a.wallclockTime <= b.wallclockTime
            /\ a.wrapCount = b.wrapCount => a.filePosition <= b.filePosition

\* after is before with d entries removed at the front
FrontRemoved(before, after, d) ==
    /\ d <= Len(before)
    /\ after = SubSeq(before, d + 1, Len(before))

\* C18: the index is ordered in every state; only write() changes it, by removing
\* entries at the front (trim) and then appending at most one entry, the one of the
\* packet being written, at the back.
C18_IndexOrdered ==
    [][/\ IndexOrdered'
       /\ m_indexList' # m_indexList =>
             /\ WriteStep
             /\ \E d \in 0 .. Len(m_indexList) :
                   \/ FrontRemoved(m_indexList, m_indexList', d)
                   \/ /\ m_indexList' # << >>
                      /\ m_indexList'[Len(m_indexList')].pts = writerP.id
                      /\ FrontRemoved(m_indexList,
                                      SubSeq(m_indexList', 1, Len(m_indexList') - 1), d)]_vars

\* C18 witness: a write has removed the oldest entry and appended its own, and the
\* index holds entries of two generations
C18_Witness ==
    /\ AfterWrite
    /\ last.pruned = 1
    /\ Len(m_indexList) >= 2
    /\ m_indexList[1].wrapCount < m_indexList[Len(m_indexList)].wrapCount
    /\ m_indexList[Len(m_indexList)].pts = last.arg

\* the position of packet id in the order of persisting, 0 if it was not persisted
PersistedAt(id) ==
    IF \E i \in 1 .. Len(persisted) : persisted[i] = id
    THEN CHOOSE i \in 1 .. Len(persisted) : persisted[i] = id
    ELSE 0

\* C19 as stated: with no seek and no keyframe-mode read so far, a read(false) returns
\* none or a stored packet that was not returned before and that was persisted after
\* every packet returned before.
C19_ReadsInPersistOrder ==
    [][(ReadCall(FALSE) /\ ~seekUsed /\ last'.ret # 0) =>
          /\ PersistedAt(last'.ret) # 0
          /\ last'.ret \notin delivered
          /\ \A d \in delivered : PersistedAt(d) < PersistedAt(last'.ret)]_vars

\* C20 as stated: a read(false) that directly follows a seek() that returned the
\* presentation timestamp of an index entry returns that entry's keyframe packet
\* (presentation timestamps are the packet ids), not none and not another packet.
C20_SeekThenReadReturnsKeyFrame ==
    [][(ReadCall(FALSE) /\ ~m_pause /\ last.op = "seek" /\ last.aux = 1) =>
          last'.ret = last.ret]_vars

====
